---- MODULE Spec2Model ----
(***************************************************************************)
(* Model of service.go (second variant, lines 135-351): the MyMux          *)
(* dispatch table, RegisterHandler / Register, the two decorators, the     *)
(* EndpointHandler defaults, Index, httpError, and ServeHTTP.              *)
(*                                                                         *)
(* A handler (http.HandlerFunc) is modelled as the sequence of primitive   *)
(* steps its call performs, outermost first: a decorator's closure runs    *)
(* its own statement and then calls the handler it wraps, so               *)
(* printDecorator(jsonDecorator(idx.GET)) is <<"log","setCT","Index.GET">>.*)
(* The http.ResponseWriter is modelled by what net/http does with it:      *)
(* header mutations are visible to the client only if made before the      *)
(* first Write, and the first Write without a WriteHeader call sends       *)
(* status 200.                                                             *)
(***************************************************************************)
EXTENDS Integers, Sequences, FiniteSets, TLC

VARIABLES
    phase,          \* "registering" (main before ListenAndServe) or "serving"
    handlers,       \* MyMux.handlers: path -> (verb -> handler)
    handlersIsNil,  \* TRUE while MyMux.handlers is the nil map
    idx,            \* the fields of the Index entity (embedded EndpointHandler)
    req,            \* in-flight requests, one record per connection slot
    lastReg,        \* history: per (path, verb), the last registration call that wrote it
    nRegs,          \* history: number of RegisterHandler / Register calls made
    registerCalls,  \* history: number of Register calls made
    jsonQueries,    \* history: number of DecorateJSON() calls made
    logQueries,     \* history: number of DecorateLOG() calls made
    frozen          \* history: the dispatch table when ListenAndServe was called

vars == <<phase, handlers, handlersIsNil, idx, req, lastReg, nRegs,
          registerCalls, jsonQueries, logQueries, frozen>>

(* ---------------------------- bounds ----------------------------------- *)
MaxRegs == 3
MaxInFlight == 2

(* ---------------------------- inputs ----------------------------------- *)
Paths == {"/", "/get"}
\* Request paths: the registrable ones and one that nothing ever registers.
ReqPaths == Paths \cup {"/missing"}
FiveVerbs == {"GET", "PUT", "POST", "DELETE", "OPTIONS"}
Verbs == FiveVerbs \cup {"PATCH"}
RegVerbs == {"GET", "PATCH"}
Entities == {"EndpointHandler", "Index"}
UserAgent == "curl"

(* ---------------------------- program constants ------------------------ *)
StatusNotFound == 404
StatusMethodNotAllowed == 405
JSONType == "application/json; charset=utf-8"
SniffedType == "text/plain; charset=utf-8"
GetBody == <<"{\"msg\":\"GET!\"}\n">>

Nil == <<"nil">>

(* ---------------------------- response writer --------------------------- *)
NewResponse == [header |-> "", status |-> 0, ctype |-> "", body |-> <<>>]

\* w.Header().Set("Content-Type", ...): changes the header map only.
SetContentType(w) == [w EXCEPT !.header = JSONType]

\* w.Write(b): the first write sends the status line (200 unless WriteHeader
\* was called, which this program never does) and the headers as they are now.
Write(w, b) ==
    IF w.status = 0
    THEN [w EXCEPT !.status = 200,
                   !.ctype = IF w.header = "" THEN SniffedType ELSE w.header,
                   !.body = Append(w.body, b)]
    ELSE [w EXCEPT !.body = Append(w.body, b)]

CodeText(code) == IF code = 404 THEN "404" ELSE IF code = 405 THEN "405" ELSE "?"

\* json.NewEncoder(w).Encode(ErrStruct{code, msg}): one Write of the object and "\n".
EncodeErrStruct(code, msg) ==
    <<"{\"code\":", CodeText(code), ",\"message\":\"">> \o msg \o <<"\"}\n">>

\* httpError: header, then the encoded object. Encode of an int and a string
\* fails only if the Write itself fails, so the hand-built fallback of line 223
\* is not taken on a working connection. No WriteHeader(code) is called.
httpError(code, errString, w) ==
    Write(SetContentType(w), EncodeErrStruct(code, errString))

NotAllowedMessage(r) == <<r.verb, " not allowed on ", r.path>>
MissingMessage == <<"missing">>

(* ---------------------------- decorators -------------------------------- *)
printDecorator(h) == <<"log">> \o h

jsonDecorator_after(h) == h \o <<"setCT">>
jsonDecorator(h) == <<"setCT">> \o h

LogLine_queryFragment(r) == <<r.verb, " \"", "", "\" ", "", "  -> ", UserAgent, "\n">>
LogLine(r) == <<r.verb, " \"", r.path, "\" -> ", UserAgent, "\n">>

(* ---------------------------- endpoint entities ------------------------- *)
\* The method value edph.<verb>: Index overrides GET only.
Method(e, v) ==
    IF e = "Index" /\ v = "GET" THEN <<"Index.GET">> ELSE <<"EndpointHandler." \o v>>

DecorateJSON(e, fields) == IF e = "Index" THEN fields.AddJSONDecorator ELSE FALSE
DecorateLOG(e, fields) == IF e = "Index" THEN fields.AddLogDecorator ELSE FALSE

DefaultOps == {"EndpointHandler." \o v : v \in FiveVerbs}

(* ---------------------------- dispatch table ---------------------------- *)
HasPath(t, p) == p \in DOMAIN t
HasHandler(t, p, v) == HasPath(t, p) /\ v \in DOMAIN t[p] /\ t[p][v] # Nil

Put(t, p, v, h) == [t EXCEPT ![p] = (v :> h) @@ t[p]]
LazyInit(t, p) == IF HasPath(t, p) THEN t ELSE (p :> <<>>) @@ t

RegisterHandler_keepFirst(t, method, path, h) ==
    IF HasPath(t, path) /\ method \in DOMAIN t[path] THEN t
    ELSE Put(LazyInit(t, path), path, method, h)
RegisterHandler(t, method, path, h) == Put(LazyInit(t, path), path, method, h)

\* Lines 279-283: the five assignments m.handlers[path][verb] = edph.<verb>.
BindFive(t, p, e) ==
    [t EXCEPT ![p] = [v \in DOMAIN t[p] \cup FiveVerbs |->
                        IF v \in FiveVerbs THEN Method(e, v) ELSE t[p][v]]]

\* Lines 286-290: each of the five slots is replaced by jsonDecorator(slot).
WrapFiveJSON(t, p) ==
    [t EXCEPT ![p] = [v \in DOMAIN t[p] |->
                        IF v \in FiveVerbs THEN jsonDecorator(t[p][v]) ELSE t[p][v]]]

\* Lines 294-298: each of the five slots is replaced by printDecorator(slot).
WrapFiveLOG(t, p) ==
    [t EXCEPT ![p] = [v \in DOMAIN t[p] |->
                        IF v \in FiveVerbs THEN printDecorator(t[p][v]) ELSE t[p][v]]]

\* Variant that binds a verb only when its slot is still empty, so a second
\* Register on the same path decorates what is already stored.
BindFiveIfAbsent(t, p, e) ==
    [t EXCEPT ![p] = [v \in DOMAIN t[p] \cup FiveVerbs |->
                        IF v \in DOMAIN t[p] THEN t[p][v] ELSE Method(e, v)]]

Register_accumulate(t, path, e, fields) ==
    LET t1 == BindFiveIfAbsent(LazyInit(t, path), path, e)
        j  == DecorateJSON(e, fields)
        t2 == IF j THEN WrapFiveJSON(t1, path) ELSE t1
        l  == DecorateLOG(e, fields)
        t3 == IF l THEN WrapFiveLOG(t2, path) ELSE t2
    IN  [tab |-> t3, jsonQ |-> 1, logQ |-> 1]

\* Variant with the two decoration blocks in the other order.
Register_logFirst(t, path, e, fields) ==
    LET t1 == BindFive(LazyInit(t, path), path, e)
        l  == DecorateLOG(e, fields)
        t2 == IF l THEN WrapFiveLOG(t1, path) ELSE t1
        j  == DecorateJSON(e, fields)
        t3 == IF j THEN WrapFiveJSON(t2, path) ELSE t2
    IN  [tab |-> t3, jsonQ |-> 1, logQ |-> 1]

\* Variant that asks the entity again for every verb it decorates.
Register_queryPerVerb(t, path, e, fields) ==
    LET t1 == BindFive(LazyInit(t, path), path, e)
        j  == DecorateJSON(e, fields)
        t2 == IF j THEN WrapFiveJSON(t1, path) ELSE t1
        l  == DecorateLOG(e, fields)
        t3 == IF l THEN WrapFiveLOG(t2, path) ELSE t2
    IN  [tab |-> t3, jsonQ |-> Cardinality(FiveVerbs), logQ |-> Cardinality(FiveVerbs)]

\* MyMux.Register: the table it leaves, and how many times it called
\* edph.DecorateJSON() (line 285) and edph.DecorateLOG() (line 293).
Register(t, path, e, fields) ==
    LET t1 == BindFive(LazyInit(t, path), path, e)
        j  == DecorateJSON(e, fields)
        t2 == IF j THEN WrapFiveJSON(t1, path) ELSE t1
        l  == DecorateLOG(e, fields)
        t3 == IF l THEN WrapFiveLOG(t2, path) ELSE t2
    IN  [tab |-> t3, jsonQ |-> 1, logQ |-> 1]

\* ServeHTTP has a value receiver and only reads m.handlers: indexing a Go map
\* with a missing key (or a nil map) returns the zero value and inserts nothing.
TableAfterServe_insertOnMiss(t, p) == LazyInit(t, p)
TableAfterServe(t, p) == t

(* ---------------------------- requests ---------------------------------- *)
IdleRequest ==
    [st |-> "idle", verb |-> "", path |-> "", cont |-> <<>>, invoked |-> Nil,
     outcome |-> "", w |-> NewResponse, events |-> <<>>, logs |-> <<>>]

\* One primitive step of a handler, applied to the request record.
Exec(op, r) ==
    LET r1 == [r EXCEPT !.events = Append(r.events, op)]
    IN  CASE op = "log"       -> [r1 EXCEPT !.logs = Append(r.logs, LogLine(r))]
          [] op = "setCT"     -> [r1 EXCEPT !.w = SetContentType(r.w)]
          [] op = "Index.GET" -> [r1 EXCEPT !.w = Write(r.w, GetBody)]
          [] op \in DefaultOps ->
                 [r1 EXCEPT !.w = httpError(StatusMethodNotAllowed, NotAllowedMessage(r), r.w)]

NoRegistration ==
    [op |-> "none", h |-> Nil, e |-> "", json |-> FALSE, log |-> FALSE, over |-> FALSE]

\* Whether (p, v) already holds a handler in table t.
Bound(t, p, v) == HasPath(t, p) /\ v \in DOMAIN t[p]

(* ---------------------------- initial state ----------------------------- *)
Init ==
    /\ phase = "registering"
    /\ handlers = <<>>
    /\ handlersIsNil = TRUE
    /\ idx \in [AddLogDecorator : BOOLEAN, AddJSONDecorator : BOOLEAN]
    /\ req = [i \in 1..1 |-> IdleRequest]
    /\ lastReg = [p \in ReqPaths |-> [v \in Verbs |-> NoRegistration]]
    /\ nRegs = 0
    /\ registerCalls = 0
    /\ jsonQueries = 0
    /\ logQueries = 0
    /\ frozen = <<>>

(* ---------------------------- registration ------------------------------ *)
\* Handlers passed to RegisterHandler: nil, idx.POST (the inherited default)
\* and the hand-decorated printDecorator(jsonDecorator(idx.GET)) of line 343.
HandlerInputs ==
    {Nil, Method("Index", "POST"),
     printDecorator(jsonDecorator(Method("Index", "GET")))}

RegisterHandlerCall ==
    /\ phase = "registering"
    /\ nRegs < MaxRegs
    /\ \E method \in RegVerbs, path \in Paths, h \in HandlerInputs :
        /\ handlers' = RegisterHandler(handlers, method, path, h)
        /\ lastReg' = [lastReg EXCEPT ![path][method] =
                          [op |-> "RegisterHandler", h |-> h, e |-> "",
                           json |-> FALSE, log |-> FALSE,
                           over |-> Bound(handlers, path, method)]]
    /\ handlersIsNil' = FALSE
    /\ nRegs' = nRegs + 1
    /\ UNCHANGED <<phase, idx, req, registerCalls, jsonQueries, logQueries, frozen>>

RegisterCall ==
    /\ phase = "registering"
    /\ nRegs < MaxRegs
    /\ \E path \in Paths, e \in Entities :
        LET res == Register(handlers, path, e, idx)
        IN  /\ handlers' = res.tab
            /\ jsonQueries' = jsonQueries + res.jsonQ
            /\ logQueries' = logQueries + res.logQ
            /\ lastReg' = [lastReg EXCEPT ![path] =
                              [v \in Verbs |->
                                 IF v \in FiveVerbs
                                 THEN [op |-> "Register", h |-> Nil, e |-> e,
                                       json |-> DecorateJSON(e, idx),
                                       log |-> DecorateLOG(e, idx),
                                       over |-> Bound(handlers, path, v)]
                                 ELSE lastReg[path][v]]]
    /\ handlersIsNil' = FALSE
    /\ nRegs' = nRegs + 1
    /\ registerCalls' = registerCalls + 1
    /\ UNCHANGED <<phase, idx, req, frozen>>

\* The exported fields of the entity are assigned by its owner.
SetFields ==
    /\ phase = "registering"
    /\ \E f \in [AddLogDecorator : BOOLEAN, AddJSONDecorator : BOOLEAN] :
        /\ f # idx
        /\ idx' = f
    /\ UNCHANGED <<phase, handlers, handlersIsNil, req, lastReg, nRegs,
                   registerCalls, jsonQueries, logQueries, frozen>>

\* http.ListenAndServe(":900", mux): registration is over, requests arrive.
ListenAndServe ==
    /\ phase = "registering"
    /\ phase' = "serving"
    /\ frozen' = handlers
    /\ UNCHANGED <<handlers, handlersIsNil, idx, req, lastReg, nRegs,
                   registerCalls, jsonQueries, logQueries>>

(* ---------------------------- serving ----------------------------------- *)
Arrive ==
    /\ phase = "serving"
    /\ \E i \in DOMAIN req, v \in Verbs, p \in ReqPaths :
        /\ req[i].st = "idle"
        /\ req' = [req EXCEPT ![i] = [IdleRequest EXCEPT !.st = "arrived",
                                                         !.verb = v, !.path = p]]
    /\ UNCHANGED <<phase, handlers, handlersIsNil, idx, lastReg, nRegs,
                   registerCalls, jsonQueries, logQueries, frozen>>

\* MyMux.ServeHTTP up to the call h(w, req), or the whole of it on the two
\* error branches.
ServeHTTP ==
    /\ phase = "serving"
    /\ \E i \in DOMAIN req :
        LET r == req[i]
        IN  /\ r.st = "arrived"
            /\ handlers' = TableAfterServe(handlers, r.path)
            /\ IF HasPath(handlers, r.path)
               THEN IF HasHandler(handlers, r.path, r.verb)
                    THEN req' = [req EXCEPT ![i] =
                                   [r EXCEPT !.st = "running",
                                             !.outcome = "handler",
                                             !.invoked = handlers[r.path][r.verb],
                                             !.cont = handlers[r.path][r.verb]]]
                    ELSE req' = [req EXCEPT ![i] =
                                   [r EXCEPT !.st = "done",
                                             !.outcome = "405",
                                             !.w = httpError(StatusMethodNotAllowed,
                                                             NotAllowedMessage(r), r.w)]]
               ELSE req' = [req EXCEPT ![i] =
                              [r EXCEPT !.st = "done",
                                        !.outcome = "404",
                                        !.w = httpError(StatusNotFound, MissingMessage, r.w)]]
    /\ UNCHANGED <<phase, handlersIsNil, idx, lastReg, nRegs,
                   registerCalls, jsonQueries, logQueries, frozen>>

\* The next statement of the handler being run for a request; the handler
\* returns after its last one.
HandlerStep ==
    /\ phase = "serving"
    /\ \E i \in DOMAIN req :
        LET r == req[i]
        IN  /\ r.st = "running"
            /\ r.cont # <<>>
            /\ LET r1 == Exec(Head(r.cont), r)
               IN  req' = [req EXCEPT ![i] =
                             [r1 EXCEPT !.cont = Tail(r.cont),
                                        !.st = IF Tail(r.cont) = <<>> THEN "done"
                                               ELSE "running"]]
    /\ UNCHANGED <<phase, handlers, handlersIsNil, idx, lastReg, nRegs,
                   registerCalls, jsonQueries, logQueries, frozen>>

\* The response has been sent; the slot serves the next request.
Close ==
    /\ phase = "serving"
    /\ \E i \in DOMAIN req :
        /\ req[i].st = "done"
        /\ req' = [req EXCEPT ![i] = IdleRequest]
    /\ UNCHANGED <<phase, handlers, handlersIsNil, idx, lastReg, nRegs,
                   registerCalls, jsonQueries, logQueries, frozen>>

Next ==
    \/ RegisterHandlerCall
    \/ RegisterCall
    \/ SetFields
    \/ ListenAndServe
    \/ Arrive
    \/ ServeHTTP
    \/ HandlerStep
    \/ Close

Spec == Init /\ [][Next]_vars

(* ---------------------------- concurrent serving ------------------------ *)
\* main's registration (lines 336-343): idx has both decorations on, "/" is
\* bound with Register and "/get" by hand.
MainIdx == [AddLogDecorator |-> TRUE, AddJSONDecorator |-> TRUE]
MainGet == printDecorator(jsonDecorator(Method("Index", "GET")))
MainTable ==
    RegisterHandler(Register(<<>>, "/", "Index", MainIdx).tab, "GET", "/get", MainGet)
MainLastReg ==
    [p \in ReqPaths |-> [v \in Verbs |->
        IF p = "/" /\ v \in FiveVerbs
        THEN [op |-> "Register", h |-> Nil, e |-> "Index", json |-> TRUE,
              log |-> TRUE, over |-> FALSE]
        ELSE IF p = "/get" /\ v = "GET"
        THEN [op |-> "RegisterHandler", h |-> MainGet, e |-> "", json |-> FALSE,
              log |-> FALSE, over |-> FALSE]
        ELSE NoRegistration]]

\* The server once ListenAndServe is running, with several connections:
\* either after main's registration or with a MyMux{} nothing was registered on.
InitServing ==
    /\ phase = "serving"
    /\ idx = MainIdx
    /\ req = [i \in 1..MaxInFlight |-> IdleRequest]
    /\ \/ /\ handlers = MainTable
          /\ handlersIsNil = FALSE
          /\ lastReg = MainLastReg
          /\ nRegs = 2
          /\ registerCalls = 1
          /\ jsonQueries = 1
          /\ logQueries = 1
       \/ /\ handlers = <<>>
          /\ handlersIsNil = TRUE
          /\ lastReg = [p \in ReqPaths |-> [v \in Verbs |-> NoRegistration]]
          /\ nRegs = 0
          /\ registerCalls = 0
          /\ jsonQueries = 0
          /\ logQueries = 0
    /\ frozen = handlers

NextServing ==
    \/ Arrive
    \/ ServeHTTP
    \/ HandlerStep
    \/ Close

SpecServing == InitServing /\ [][NextServing]_vars

(* ---------------------------- helpers for the properties ---------------- *)
Started(r) == r.st \in {"running", "done"}
Finished(r) == r.st = "done"
RegOf(r) == lastReg[r.path][r.verb]
Count(h, op) == Cardinality({k \in 1..Len(h) : h[k] = op})
Contains(line, piece) == \E k \in 1..Len(line) : line[k] = piece
Positions(h, ops) == {k \in 1..Len(h) : h[k] \in ops}
WriteOps == {"Index.GET"} \cup DefaultOps

(* ---------------------------- C1 ---------------------------------------- *)
\* C1: a request for a (path, verb) pair whose most recent registration was
\* RegisterHandler(verb, path, h) with a handler h invokes exactly h, once, and
\* nothing registered earlier for the pair.
C1_LastRegisteredHandlerInvoked ==
    \A i \in DOMAIN req :
        LET r == req[i]
        IN  (Started(r) /\ RegOf(r).op = "RegisterHandler" /\ RegOf(r).h # Nil)
            => /\ r.outcome = "handler"
               /\ r.invoked = RegOf(r).h
               /\ r.events \o r.cont = RegOf(r).h

\* A finished request on a pair that was registered over an earlier handler.
C1_Witness ==
    \E i \in DOMAIN req :
        /\ Finished(req[i])
        /\ RegOf(req[i]).op = "RegisterHandler"
        /\ RegOf(req[i]).over
        /\ RegOf(req[i]).h # Nil
        /\ req[i].invoked = RegOf(req[i]).h

(* ---------------------------- C2 ---------------------------------------- *)
\* C2: a request whose path was never registered is answered with HTTP status
\* 404 and the error body {code 404, message "missing"}, and no handler runs.
C2_UnregisteredPathIs404 ==
    \A i \in DOMAIN req :
        LET r == req[i]
        IN  (Finished(r) /\ \A v \in Verbs : lastReg[r.path][v].op = "none")
            => /\ r.w.status = 404
               /\ r.w.body = << <<"{\"code\":", "404", ",\"message\":\"", "missing", "\"}\n">> >>
               /\ r.invoked = Nil
               /\ r.events = <<>>

(* ---------------------------- C3 ---------------------------------------- *)
\* C3: a request whose path is registered but whose verb has no handler under
\* it is answered with HTTP status 405 and the error body {code 405, message
\* "<verb> not allowed on <path>"}, and no handler runs.
C3_UnregisteredVerbIs405 ==
    \A i \in DOMAIN req :
        LET r == req[i]
        IN  (/\ Finished(r)
             /\ \E v \in Verbs : lastReg[r.path][v].op # "none"
             /\ RegOf(r).op = "none")
            => /\ r.w.status = 405
               /\ r.w.body = << <<"{\"code\":", "405", ",\"message\":\"",
                                  r.verb, " not allowed on ", r.path, "\"}\n">> >>
               /\ r.invoked = Nil
               /\ r.events = <<>>

(* ---------------------------- C4 ---------------------------------------- *)
\* C4: on a path bound by Register to an Index (which overrides GET only), GET
\* yields the override's body and the other four verbs yield HTTP 405 with a
\* message containing the requested verb and path.
C4_OverrideOnlyGET ==
    \A i \in DOMAIN req :
        LET r == req[i]
        IN  (Finished(r) /\ RegOf(r).op = "Register" /\ RegOf(r).e = "Index")
            => IF r.verb = "GET"
               THEN r.w.body = <<GetBody>>
               ELSE /\ r.w.status = 405
                    /\ Len(r.w.body) = 1
                    /\ Contains(r.w.body[1], r.verb)
                    /\ Contains(r.w.body[1], r.path)

(* ---------------------------- C5 ---------------------------------------- *)
\* C5: a handler bound by Register with DecorateJSON() true sets the
\* Content-Type header to application/json; charset=utf-8 before anything is
\* written to the response, for each of the five verbs, on every invocation.
C5_JSONHeaderBeforeAnyWrite ==
    \A i \in DOMAIN req :
        LET r == req[i]
        IN  (Started(r) /\ RegOf(r).op = "Register" /\ RegOf(r).json)
            => /\ r.w.status # 0 => r.w.ctype = JSONType
               /\ \A k \in Positions(r.events, WriteOps) :
                      \E j \in Positions(r.events, {"setCT"}) : j < k
               /\ Finished(r) => (r.w.ctype = JSONType /\ Count(r.events, "setCT") = 1)

\* A finished GET on an Index bound with JSON decoration: the override wrote
\* its body and never touches the header itself.
C5_Witness ==
    \E i \in DOMAIN req :
        /\ Finished(req[i])
        /\ RegOf(req[i]).op = "Register"
        /\ RegOf(req[i]).json
        /\ req[i].verb = "GET"
        /\ req[i].w.body = <<GetBody>>
        /\ req[i].w.ctype = JSONType

(* ---------------------------- C6 ---------------------------------------- *)
\* C6: a handler bound by Register with DecorateLOG() true emits exactly one
\* log line per invocation, and the line contains the request's verb and path.
C6_OneLogLinePerInvocation ==
    \A i \in DOMAIN req :
        LET r == req[i]
        IN  (Started(r) /\ RegOf(r).op = "Register" /\ RegOf(r).log)
            => /\ Len(r.logs) <= 1
               /\ Finished(r) => Len(r.logs) = 1
               /\ \A k \in 1..Len(r.logs) :
                      Contains(r.logs[k], r.verb) /\ Contains(r.logs[k], r.path)

\* A finished PUT (an inherited default) on a log-decorated entity.
C6_Witness ==
    \E i \in DOMAIN req :
        /\ Finished(req[i])
        /\ RegOf(req[i]).op = "Register"
        /\ RegOf(req[i]).log
        /\ req[i].verb = "PUT"
        /\ Len(req[i].logs) = 1

(* ---------------------------- C7 ---------------------------------------- *)
\* What ServeHTTP does with one request served alone against table t.
AloneOutcome(t, p, v) ==
    IF p \notin DOMAIN t THEN "404"
    ELSE IF v \notin DOMAIN t[p] \/ t[p][v] = Nil THEN "405"
    ELSE "handler"

\* C7: while serving, the dispatch table stays what it was when registration
\* finished, and every request, however interleaved with others, gets the
\* outcome it would get alone against that table.
C7_ServingNeverChangesTable ==
    phase = "serving" =>
        /\ handlers = frozen
        /\ \A i \in DOMAIN req :
               LET r == req[i]
               IN  Started(r) =>
                     /\ r.outcome = AloneOutcome(frozen, r.path, r.verb)
                     /\ r.outcome = "handler" => r.invoked = frozen[r.path][r.verb]

\* Two requests in flight at once: one in the middle of its handler, one
\* answered as not found.
C7_Witness ==
    \E i, k \in DOMAIN req :
        /\ i # k
        /\ req[i].st = "running"
        /\ req[i].events # <<>>
        /\ Finished(req[k])
        /\ req[k].outcome = "404"

(* ---------------------------- C8 ---------------------------------------- *)
\* C8: a handler bound by Register with both decorations runs, on each
\* invocation and for each of the five verbs, the log line first, then the
\* Content-Type header, then the entity's verb method.
C8_LogThenJSONThenMethod ==
    \A i \in DOMAIN req :
        LET r == req[i]
        IN  (Started(r) /\ RegOf(r).op = "Register" /\ RegOf(r).json /\ RegOf(r).log)
            => /\ r.events \o r.cont = <<"log", "setCT">> \o Method(RegOf(r).e, r.verb)
               /\ r.w.header = JSONType => Len(r.logs) = 1
               /\ r.w.status # 0 => (r.w.header = JSONType /\ Len(r.logs) = 1)

\* A request stopped between the two decorators: logged, header not yet set.
C8_Witness ==
    \E i \in DOMAIN req :
        /\ req[i].st = "running"
        /\ RegOf(req[i]).op = "Register"
        /\ RegOf(req[i]).json
        /\ RegOf(req[i]).log
        /\ req[i].events = <<"log">>
        /\ req[i].w.header = ""

(* ---------------------------- C9 ---------------------------------------- *)
\* C9: Register asks the entity for each decoration preference exactly once,
\* serving asks never, and a served handler carries the decorations chosen at
\* registration whatever the entity's fields say at request time.
C9_PreferencesReadOnceAtRegistration ==
    /\ jsonQueries = registerCalls
    /\ logQueries = registerCalls
    /\ \A i \in DOMAIN req :
           LET r == req[i]
           IN  (Finished(r) /\ RegOf(r).op = "Register")
               => /\ Count(r.events, "setCT") = (IF RegOf(r).json THEN 1 ELSE 0)
                  /\ Count(r.events, "log") = (IF RegOf(r).log THEN 1 ELSE 0)

\* A request served after the entity's fields were both flipped: bound with
\* JSON and log decoration on, served when the fields say off.
C9_Witness ==
    \E i \in DOMAIN req :
        /\ Finished(req[i])
        /\ RegOf(req[i]).op = "Register"
        /\ RegOf(req[i]).e = "Index"
        /\ RegOf(req[i]).json /\ ~idx.AddJSONDecorator
        /\ RegOf(req[i]).log /\ ~idx.AddLogDecorator
        /\ req[i].events = <<"log", "setCT", "Index.GET">>
        /\ jsonQueries = registerCalls
        /\ registerCalls >= 1

(* ---------------------------- C10 --------------------------------------- *)
\* The five slots of a path hold what the last Register on it bound: the
\* entity's method under at most one JSON and at most one log decorator.
RegisterSlotsReplaced ==
    \A p \in Paths, v \in FiveVerbs :
        lastReg[p][v].op = "Register"
        => /\ Bound(handlers, p, v)
           /\ LET h == handlers[p][v]
              IN  /\ Count(h, "setCT") <= 1
                  /\ Count(h, "log") <= 1
                  /\ Len(h) = 1 + Count(h, "setCT") + Count(h, "log")
                  /\ <<h[Len(h)]>> = Method(lastReg[p][v].e, v)

\* A Register step changes no slot outside the five verbs of its path.
RegisterFrame ==
    registerCalls' = registerCalls + 1
    => \A p \in Paths, v \in Verbs :
           lastReg'[p][v] = lastReg[p][v]
           => /\ Bound(handlers', p, v) = Bound(handlers, p, v)
              /\ Bound(handlers, p, v) => handlers'[p][v] = handlers[p][v]

\* C10: Register replaces rather than accumulates, and leaves every other
\* path, and every verb outside the five at its own path, as it was.
C10_RegisterReplaces == []RegisterSlotsReplaced /\ [][RegisterFrame]_vars

\* Register called twice on a path that also holds a PATCH handler, the
\* second time with log decoration on.
C10_Witness ==
    \E p \in Paths :
        /\ registerCalls = 2
        /\ nRegs = 3
        /\ lastReg[p]["PATCH"].op = "RegisterHandler"
        /\ lastReg[p]["GET"].op = "Register"
        /\ lastReg[p]["GET"].over
        /\ lastReg[p]["GET"].log
        /\ lastReg[p]["GET"].json
        /\ handlers[p]["PATCH"] = lastReg[p]["PATCH"].h

====
